---- MODULE Spec2Model ----
(***************************************************************************)
(* A model of the tRPC / svelte-query adapter: the query-key codec, the    *)
(* adapter proxy (svelteQueryWrapper), the cache-control tree              *)
(* (createUtilsProxy), the batch-query tree (createQueriesProxy) and the   *)
(* exported getQueryKey.                                                   *)
(*                                                                         *)
(* JavaScript values are records [k, p, o, s]: k is the kind (typeof, with *)
(* null and arrays told apart), p the payload of a primitive, o the own    *)
(* fields of a plain object as a set of <<name, value>> pairs, and s tells *)
(* a svelte store (an object with a callable subscribe) that currently     *)
(* holds the value described by k, p and o.  Two values are equal when     *)
(* their canonical hashes (hashKey) are equal.                             *)
(*                                                                         *)
(* A property key is a string.  The keys of the model are listed in        *)
(* PathSegs and the name tables; split tabulates String.split('.') on them.*)
(***************************************************************************)
EXTENDS Naturals, Sequences, FiniteSets, TLC

\* ------------------------------------------------------------------ values

Val(k, p, o) == [k |-> k, p |-> p, o |-> o, s |-> FALSE]

Undef == Val("undefined", "", {})
Null == Val("null", "", {})
skipToken == Val("symbol", "skipToken", {})
Num0 == Val("number", "0", {})
Num1 == Val("number", "1", {})
Str(x) == Val("string", x, {})
Arr == Val("array", "[1]", {})
Obj(fields) == Val("object", "", fields)

ObjE == Obj({})
ObjF == Obj({<<"filter", "x">>})
ObjC == Obj({<<"cursor", "5">>})
ObjCF == Obj({<<"cursor", "5">>, <<"filter", "x">>})
ObjDF == Obj({<<"direction", "forward">>, <<"filter", "x">>})
ObjCDF == Obj({<<"cursor", "5">>, <<"direction", "forward">>, <<"filter", "x">>})
ObjLazy == Obj({<<"lazy", "true">>})

\* a readable store that currently holds v
StoreOf(v) == [v EXCEPT !.s = TRUE]
\* get(store)
get(v) == [v EXCEPT !.s = FALSE]

\* JavaScript truthiness (ToBoolean)
Truthy(v) ==
    \/ v.s
    \/ /\ v.k \notin {"undefined", "null"}
       /\ ~(v.k = "number" /\ v.p = "0")
       /\ ~(v.k = "string" /\ v.p = "")
       /\ ~(v.k = "boolean" /\ v.p = "false")

\* 'name' in value, for a value that is an object
HasField(v, name) == ~v.s /\ \E f \in v.o : f[1] = name

\* the value a field's payload stands for
Decode(x) ==
    IF x \in {"true", "false"} THEN Val("boolean", x, {})
    ELSE IF x = "null" THEN Val("null", "", {})
    ELSE IF x \in {"0", "1", "5", "7"} THEN Val("number", x, {})
    ELSE Val("string", x, {})

\* value?.name, undefined when absent; a nested field a.b is the field "a.b"
Field(v, name) ==
    IF v.k = "object" /\ HasField(v, name)
    THEN Decode((CHOOSE f \in v.o : f[1] = name)[2])
    ELSE Undef

isSvelteStore(v) ==
    IF v.s THEN "true"
    ELSE IF v.k = "null" THEN "TypeError"   \* 'subscribe' in null
    ELSE "false"

isObject(v) == v.s \/ v.k = "object"

\* ------------------------------------------------------------ the key codec

PathSegs == {"todos", "get", "todos.get"}

split(seg) == IF seg = "todos.get" THEN <<"todos", "get">> ELSE <<seg>>

RECURSIVE flatSplit(_)
flatSplit(path) ==
    IF path = <<>> THEN <<>> ELSE split(Head(path)) \o flatSplit(Tail(path))

QueryTypes == {"query", "infinite", "any"}

\* the options element { input?, type? } as a record over the fields it holds
OptionsElement(withInput, input, withType, type) ==
    [n \in (IF withInput THEN {"input"} ELSE {}) \cup (IF withType THEN {"type"} ELSE {})
        |-> IF n = "input" THEN input ELSE Str(type)]

WithoutCursorAndDirection(input) ==
    [input EXCEPT !.o = {f \in input.o : f[1] \notin {"cursor", "direction"}}]

getQueryKeyInternalNoStrip(path, input, type) ==
    LET splitPath == flatSplit(path) IN
    IF ~Truthy(input) /\ type \in {"undefined", "any"}
    THEN IF Len(splitPath) > 0 THEN <<splitPath>> ELSE <<>>
    ELSE <<splitPath,
           OptionsElement(input.k # "undefined" /\ input # skipToken, input,
                          type \notin {"undefined", "any"}, type)>>

getQueryKeyInternalNoSplit(path, input, type) ==
    IF ~Truthy(input) /\ type \in {"undefined", "any"}
    THEN IF Len(path) > 0 THEN <<path>> ELSE <<>>
    ELSE IF type = "infinite" /\ isObject(input)
            /\ (HasField(input, "direction") \/ HasField(input, "cursor"))
    THEN <<path, OptionsElement(TRUE, WithoutCursorAndDirection(input), TRUE, "infinite")>>
    ELSE <<path,
           OptionsElement(input.k # "undefined" /\ input # skipToken, input,
                          type \notin {"undefined", "any"}, type)>>

getQueryKeyInternal(path, input, type) ==
    LET splitPath == flatSplit(path) IN
    IF ~Truthy(input) /\ type \in {"undefined", "any"}
    THEN IF Len(splitPath) > 0 THEN <<splitPath>> ELSE <<>>
    ELSE IF type = "infinite" /\ isObject(input)
            /\ (HasField(input, "direction") \/ HasField(input, "cursor"))
    THEN <<splitPath, OptionsElement(TRUE, WithoutCursorAndDirection(input), TRUE, "infinite")>>
    ELSE <<splitPath,
           OptionsElement(input.k # "undefined" /\ input # skipToken, input,
                          type \notin {"undefined", "any"}, type)>>

getMutationKeyInternalTyped(path) == getQueryKeyInternal(path, Undef, "query")

getMutationKeyInternal(path) == getQueryKeyInternal(path, Undef, "any")

\* ------------------------------------------------- the external query cache

\* partialMatchKey of the cache layer: every element of the filter key b is
\* matched by the element of the query key a at the same place; arrays match
\* by prefix, objects by the fields the filter gives.
IsPrefix(s, t) == Len(s) <= Len(t) /\ SubSeq(t, 1, Len(s)) = s

PartialMatchVal(a, b) ==
    \/ a = b
    \/ a.k = "object" /\ b.k = "object" /\ ~a.s /\ ~b.s /\ b.o \subseteq a.o

partialMatchKey(a, b) ==
    /\ Len(b) <= Len(a)
    /\ Len(b) >= 1 => IsPrefix(b[1], a[1])
    /\ Len(b) >= 2 =>
          \A n \in DOMAIN b[2] : n \in DOMAIN a[2] /\ PartialMatchVal(a[2][n], b[2][n])

Data == {"v1", "v2"}

\* ---------------------------------------------------------------- tables

\* Procedure (the meta-operations of the adapter proxy)
ProcedureNames ==
    {"createQuery", "createServerQuery", "createInfiniteQuery",
     "createServerInfiniteQuery", "createMutation", "createSubscription",
     "getQueryKey", "createContext", "createUtils", "createQueries",
     "createServerQueries"}

\* the keys of procedureExts, each holding the single extension `opts`
ProcedureExtNames ==
    {"createQuery", "createInfiniteQuery", "createMutation", "createSubscription"}

\* the keys of utilProcedures (Util.Query without client, and Util.Mutation)
UtilNames ==
    {"fetch", "prefetch", "fetchInfinite", "prefetchInfinite", "ensureData",
     "invalidate", "refetch", "reset", "cancel", "setData", "getData",
     "setInfiniteData", "getInfiniteData",
     "setMutationDefaults", "getMutationDefaults", "isMutating"}

getQueryTypeAllQuery(utilName) == "query"

getQueryType(utilName) ==
    CASE utilName \in {"fetch", "ensureData", "prefetch", "getData", "setData"} -> "query"
      [] utilName \in {"fetchInfinite", "prefetchInfinite", "getInfiniteData",
                       "setInfiniteData"} -> "infinite"
      [] utilName \in {"setMutationDefaults", "getMutationDefaults", "isMutating",
                       "cancel", "invalidate", "refetch", "reset"} -> "any"

\* ------------------------------------------------------------------ bounds

\* the procedure paths the caller walks: the root, a router, a leaf reached by
\* two accesses, and the same leaf reached by one dotted key
Paths == {<<>>, <<"todos">>, <<"todos", "get">>, <<"todos.get">>}

\* the meta-operations the caller invokes
CalledProcedures ==
    {"createQuery", "createInfiniteQuery", "createMutation", "getQueryKey",
     "createContext", "createUtils", "createQueries", "createServerQueries"}

\* the last key of an access chain on the adapter proxy: a meta-operation,
\* _def, or a method of the remote-procedure client
ApiFinals == CalledProcedures \cup {"_def", "query"}

ApiChains ==
    Paths
    \cup {Append(p, f) : p \in Paths, f \in ApiFinals}
    \cup {p \o <<f, "opts">> : p \in Paths, f \in {"createQuery", "query"}}

\* inputs given to the binders and the cache-control utilities
Inputs == {Undef, Null, ObjCF, StoreOf(ObjCF)}
\* inputs given to the cache-control utilities
UtilInputs == {Undef, ObjCF}
\* options given to the binders
OptsArgs == {Undef, ObjE, ObjLazy, StoreOf(ObjE), Null}
\* inputs and types given to the key lookups
KeyInputs == {Undef, skipToken, Null, Num0, Num1, Arr, ObjF, ObjCF, ObjDF, ObjCDF}
TypeArgs == QueryTypes \cup {"undefined"}

\* how many times one proxy node reference is invoked
MaxApply == 2
\* how many leaves a batch callback invokes
MaxBatch == 1
\* how many cache entries the model follows
MaxCache == 1

\* the batch callbacks: the leaf calls t.<path>(input) each makes, in order
LeafCalls == {[p |-> p, i |-> i] : p \in Paths, i \in {Undef, ObjCF}}
RECURSIVE SeqsUpTo(_, _)
SeqsUpTo(S, n) ==
    IF n = 0 THEN {<<>>}
    ELSE SeqsUpTo(S, n - 1) \cup {Append(q, x) : q \in SeqsUpTo(S, n - 1), x \in S}
Batches == SeqsUpTo(LeafCalls, MaxBatch)

\* ------------------------------------------------------------------- state

VARIABLES
    node,      \* the proxy node or utility function the caller holds
    last,      \* what the last call did: the primitive it reached, its key, its result
    cache,     \* the query cache: key -> entry
    hasUtils,  \* the caller holds a cache-control tree
    bound      \* what a binder returned to the component: its stores and closures

vars == <<node, last, cache, hasUtils, bound>>

ApiRoot == [tree |-> "api", path |-> <<>>, accessed |-> <<>>, applied |-> 0, fn |-> "none"]
UtilsRootNode == [tree |-> "utils", path |-> <<>>, accessed |-> <<>>, applied |-> 0, fn |-> "none"]

NoSeen == [key |-> <<>>, p |-> <<>>, any |-> FALSE]

NoLast ==
    [op |-> "none", ret |-> "none", p |-> <<>>, i |-> Undef, o |-> Undef, t |-> "none",
     key |-> <<>>, prim |-> "none", n |-> 0, data |-> "none", descs |-> <<>>,
     client |-> <<>>, seen |-> NoSeen]

\* no binder has been called
NoBound == [kind |-> "none"]

Init ==
    /\ node = ApiRoot
    /\ last = NoLast
    /\ cache = <<>>
    /\ hasUtils = FALSE
    /\ bound = NoBound

\* ------------------------------------------------------- the cache, as used

\* cache maps the keys that hold data to it; the model follows the entries
\* that setQueryData writes
HasRoom(key) == key \in DOMAIN cache \/ Cardinality(DOMAIN cache) < MaxCache

setQueryData(c, key, v) == (key :> v) @@ c

getQueryData(c, key) == IF key \in DOMAIN c THEN c[key] ELSE "none"

\* resetQueries puts every query the filter matches back to its initial
\* state, which holds no data
resetQueries(c, filterKey) ==
    [k \in {j \in DOMAIN c : ~partialMatchKey(j, filterKey)} |-> c[k]]

\* the key a producing call (a query observer, a fetch) last produced, and the
\* path it was produced under; the model keeps it while the caller goes on to
\* invalidate
Producers == {"createQuery", "createInfiniteQuery", "fetch", "fetchInfinite"}
Seen(l) ==
    IF l.op \in Producers /\ l.prim # "none"
    THEN [key |-> l.key, p |-> l.p, any |-> TRUE]
    ELSE l.seen

\* the cache drops an entry (garbage collection, removeQueries)
Gc ==
    /\ \E k \in DOMAIN cache : cache' = [j \in DOMAIN cache \ {k} |-> cache[j]]
    /\ UNCHANGED <<node, last, hasUtils, bound>>

\* --------------------------------------------------- the adapter proxy: get

\* DeepProxy get trap: this.nest() returns a node whose path is a copy of this
\* node's path with the key pushed
Get(seg) ==
    /\ node.tree = "api"
    /\ node.applied = 0
    /\ Append(node.accessed, seg) \in ApiChains
    /\ node' = [node EXCEPT !.path = Append(node.path, seg),
                            !.accessed = Append(node.accessed, seg)]
    /\ last' = NoLast
    /\ UNCHANGED <<cache, hasUtils, bound>>

\* the caller starts a new access chain from the adapter proxy
Root ==
    /\ node # ApiRoot \/ last # NoLast
    /\ node' = ApiRoot
    /\ last' = NoLast
    /\ UNCHANGED <<cache, hasUtils, bound>>

\* ------------------------------------------------- the adapter proxy: apply

Front(q) == SubSeq(q, 1, Len(q) - 1)

\* this.path.pop() ?? ''
PopKey(path) == IF path = <<>> THEN "" ELSE path[Len(path)]
PopRest(path) == IF path = <<>> THEN <<>> ELSE Front(path)

Applied(rest) == [node EXCEPT !.path = rest, !.applied = @ + 1]

CanApply == node.tree = "api" /\ node.applied < MaxApply

\* key === '_def': the accumulated path
ApplyDef ==
    /\ CanApply
    /\ PopKey(node.path) = "_def"
    /\ node' = Applied(PopRest(node.path))
    /\ last' = [NoLast EXCEPT !.op = "_def", !.ret = "def", !.p = PopRest(node.path)]
    /\ UNCHANGED <<cache, hasUtils, bound>>

\* procedures[Procedure.query] and procedures[Procedure.infiniteQuery]
QueryBinder(op, type, path, input, opts) ==
    IF isSvelteStore(opts) = "TypeError" \/ isSvelteStore(input) = "TypeError"
    THEN [NoLast EXCEPT !.op = op, !.ret = "TypeError", !.p = path, !.i = input, !.o = opts]
    ELSE
        LET isOptsStore == isSvelteStore(opts) = "true"
            isInputStore == isSvelteStore(input) = "true"
            currentOpts == IF isOptsStore THEN get(opts) ELSE opts
            lazy == Truthy(Field(currentOpts, "lazy"))
            \* the input of the descriptor: the static one, or what the derived
            \* store computes from the input store's current value
            currentInput == IF isInputStore THEN get(input) ELSE input
        IN  [NoLast EXCEPT !.op = op, !.p = path, !.i = input, !.o = opts, !.t = type,
                           !.ret = IF lazy THEN "lazy" ELSE "query",
                           !.prim = op, !.n = 1,
                           !.key = getQueryKeyInternal(path, currentInput, type)]

ApplyQuery(op, type, input, opts) ==
    /\ CanApply
    /\ PopKey(node.path) = op
    /\ last' = QueryBinder(op, type, PopRest(node.path), input, opts)
    /\ node' = Applied(PopRest(node.path))
    /\ UNCHANGED <<cache, hasUtils, bound>>

\* procedures[Procedure.mutate]
ApplyMutation(opts) ==
    /\ CanApply
    /\ PopKey(node.path) = "createMutation"
    /\ last' = [NoLast EXCEPT !.op = "createMutation", !.ret = "mutation",
                              !.p = PopRest(node.path), !.o = opts, !.t = "any",
                              !.prim = "createMutation", !.n = 1,
                              !.key = getMutationKeyInternal(PopRest(node.path))]
    /\ node' = Applied(PopRest(node.path))
    /\ UNCHANGED <<cache, hasUtils, bound>>

\* procedures[Procedure.queryKey]: (input, opts) => getQueryKeyInternal(path, input, opts)
ApplyQueryKey(input, type) ==
    /\ CanApply
    /\ PopKey(node.path) = "getQueryKey"
    /\ last' = [NoLast EXCEPT !.op = "getQueryKey", !.ret = "key",
                              !.p = PopRest(node.path), !.i = input, !.t = type,
                              !.key = getQueryKeyInternal(PopRest(node.path), input, type)]
    /\ node' = Applied(PopRest(node.path))
    /\ UNCHANGED <<cache, hasUtils, bound>>

\* if (ctx.path.length !== 0) return;
RootOnlyFactory(path) == IF Len(path) # 0 THEN "undefined" ELSE "function"

\* procedures[Procedure.utils] and [Procedure.context] at the root
ApplyUtils ==
    /\ CanApply
    /\ PopKey(node.path) \in {"createUtils", "createContext"}
    /\ RootOnlyFactory(PopRest(node.path)) = "function"
    /\ last' = [NoLast EXCEPT !.op = PopKey(node.path), !.ret = "utils"]
    /\ hasUtils' = TRUE
    /\ node' = Applied(PopRest(node.path))
    /\ UNCHANGED <<cache, bound>>

BatchDescriptorPops(call) ==
    [p |-> PopRest(call.p), i |-> call.i,
     key |-> getQueryKeyInternal(PopRest(call.p), call.i, "query")]

\* createQueriesProxy: apply on a leaf of the batch tree returns a descriptor
BatchDescriptor(call) ==
    [p |-> call.p, i |-> call.i, key |-> getQueryKeyInternal(call.p, call.i, "query")]

Descriptors(batch) == [n \in DOMAIN batch |-> BatchDescriptor(batch[n])]

\* procedures[Procedure.queries] at the root
ApplyQueries(batch) ==
    /\ CanApply
    /\ PopKey(node.path) = "createQueries"
    /\ RootOnlyFactory(PopRest(node.path)) = "function"
    /\ LET descs == Descriptors(batch) IN
       last' = [NoLast EXCEPT !.op = "createQueries", !.ret = "queries",
                              !.prim = "createQueries", !.n = 1, !.descs = descs]
    /\ node' = Applied(PopRest(node.path))
    /\ UNCHANGED <<cache, hasUtils, bound>>

\* the queries of a batch that createServerQueries prefetches: no data cached
\* (query.ssr is not set by the callbacks of the model)
RECURSIVE ToPrefetch(_, _)
ToPrefetch(c, descs) ==
    IF descs = <<>> THEN <<>>
    ELSE (IF getQueryData(c, Head(descs).key) = "none" THEN <<Head(descs)>> ELSE <<>>)
         \o ToPrefetch(c, Tail(descs))

\* procedures[Procedure.serverQueries] at the root, up to its first await
ApplyServerQueries(batch) ==
    /\ CanApply
    /\ PopKey(node.path) = "createServerQueries"
    /\ RootOnlyFactory(PopRest(node.path)) = "function"
    /\ LET descs == Descriptors(batch)
           fetched == ToPrefetch(cache, descs) IN
       last' = [NoLast EXCEPT !.op = "createServerQueries", !.ret = "promise",
                              !.prim = IF fetched = <<>> THEN "none" ELSE "prefetchQuery",
                              !.n = Len(fetched), !.descs = fetched]
    /\ node' = Applied(PopRest(node.path))
    /\ UNCHANGED <<cache, hasUtils, bound>>

\* the factories that return undefined off the root; apply calls the result
RootOnly == {"createUtils", "createContext", "createQueries", "createServerQueries"}


CallResult(callee) == IF callee = "undefined" THEN "TypeError" ELSE "called"

ApplyOffRoot ==
    /\ CanApply
    /\ PopKey(node.path) \in RootOnly
    /\ RootOnlyFactory(PopRest(node.path)) = "undefined"
    /\ last' = [NoLast EXCEPT !.op = PopKey(node.path), !.p = PopRest(node.path),
                              !.ret = CallResult(RootOnlyFactory(PopRest(node.path)))]
    /\ node' = Applied(PopRest(node.path))
    /\ UNCHANGED <<cache, hasUtils, bound>>

\* no meta-operation: a procedureExts entry, or the unhandled-path error
ApplyUnmatched(input) ==
    /\ CanApply
    /\ PopKey(node.path) \notin ProcedureNames \cup {"_def"}
    /\ LET key == PopKey(node.path)
           proc == PopKey(PopRest(node.path))
           rest == PopRest(PopRest(node.path)) IN
       /\ last' = IF proc \in ProcedureExtNames /\ key = "opts"
                  THEN [NoLast EXCEPT !.op = "ext", !.ret = "argument", !.i = input,
                                      !.p = rest]
                  ELSE [NoLast EXCEPT !.op = "unhandled", !.ret = "undefined", !.i = input,
                                      !.p = rest]
       /\ node' = Applied(rest)
    /\ UNCHANGED <<cache, hasUtils, bound>>

DefPathKeepsDef(n) == Append(n.path, "_def")

\* the exported getQueryKey(procedureOrRouter, input, type) on the node the
\* caller holds: procedureOrRouter._def() nests a node, whose apply pops _def
DefPath(n) == PopRest(Append(n.path, "_def"))

GetQueryKeyFn(input, type) ==
    /\ node.tree = "api"
    /\ node.applied = 0
    /\ node.accessed \in Paths
    /\ last' = [NoLast EXCEPT !.op = "getQueryKey()", !.ret = "key",
                              !.p = node.accessed, !.i = input, !.t = type,
                              !.key = getQueryKeyInternal(DefPath(node), input,
                                        IF type = "undefined" THEN "any" ELSE type)]
    /\ UNCHANGED <<node, cache, hasUtils, bound>>

\* ------------------------------------------------- the cache-control tree

\* the caller starts a new access chain from the tree createUtils returned
UtilsRoot ==
    /\ hasUtils
    /\ node # UtilsRootNode \/ last # [NoLast EXCEPT !.seen = Seen(last)]
    /\ node' = UtilsRootNode
    /\ last' = [NoLast EXCEPT !.seen = Seen(last)]
    /\ UNCHANGED <<cache, hasUtils, bound>>

\* createUtilsProxy get trap on a key that names no utility: this.nest()
UtilGet(seg) ==
    /\ node.tree = "utils"
    /\ Append(node.path, seg) \in Paths
    /\ node' = [node EXCEPT !.path = Append(node.path, seg),
                            !.accessed = Append(node.accessed, seg)]
    /\ last' = [NoLast EXCEPT !.seen = last.seen]
    /\ UNCHANGED <<cache, hasUtils, bound>>

\* key === Util.Query.client
UtilClient ==
    /\ node.tree = "utils"
    /\ last' = [NoLast EXCEPT !.op = "client", !.ret = "trpcProxyClient", !.p = node.path]
    /\ UNCHANGED <<node, cache, hasUtils, bound>>

\* hasOwn(utilProcedures, key): the factory takes path and key from the
\* context when the property is read, and returns the utility
UtilFn(name) ==
    /\ node.tree = "utils"
    /\ name \in UtilNames
    /\ node' = [node EXCEPT !.tree = "utilfn", !.fn = name]
    /\ last' = [NoLast EXCEPT !.seen = IF name = "invalidate" THEN last.seen ELSE NoSeen]
    /\ UNCHANGED <<cache, hasUtils, bound>>

UtilCalled(name, prim, type, key, input) ==
    [NoLast EXCEPT !.op = name, !.ret = "promise", !.p = node.path, !.i = input,
                   !.t = type, !.prim = prim, !.n = 1, !.key = key]

\* fetch, prefetch, ensureData, fetchInfinite, prefetchInfinite
FetchPrimitive(name) ==
    CASE name = "fetch" -> "fetchQuery"
      [] name = "prefetch" -> "prefetchQuery"
      [] name = "ensureData" -> "ensureQueryData"
      [] name = "fetchInfinite" -> "fetchInfiniteQuery"
      [] name = "prefetchInfinite" -> "prefetchInfiniteQuery"

UtilFetch(input) ==
    /\ node.tree = "utilfn"
    /\ node.fn \in {"fetch", "prefetch", "ensureData", "fetchInfinite", "prefetchInfinite"}
    /\ LET type == getQueryType(node.fn)
           queryKey == getQueryKeyInternal(node.path, input, type) IN
       last' = UtilCalled(node.fn, FetchPrimitive(node.fn), type, queryKey, input)
    /\ UNCHANGED <<node, cache, hasUtils, bound>>

FilterPrimitiveRefetch(name) == "refetchQueries"

\* invalidate, refetch, cancel, reset
FilterPrimitive(name) ==
    CASE name = "invalidate" -> "invalidateQueries"
      [] name = "refetch" -> "refetchQueries"
      [] name = "cancel" -> "cancelQueries"
      [] name = "reset" -> "resetQueries"

UtilFilter(input) ==
    /\ node.tree = "utilfn"
    /\ node.fn \in {"invalidate", "refetch", "cancel"}
    /\ LET type == getQueryType(node.fn)
           queryKey == getQueryKeyInternal(node.path, input, type) IN
       last' = [UtilCalled(node.fn, FilterPrimitive(node.fn), type, queryKey, input)
                    EXCEPT !.seen = last.seen]
    /\ UNCHANGED <<node, cache, hasUtils, bound>>

\* reset: the cache puts the queries the filter matches back to their initial state
UtilReset(input) ==
    /\ node.tree = "utilfn"
    /\ node.fn = "reset"
    /\ LET type == getQueryType(node.fn)
           queryKey == getQueryKeyInternal(node.path, input, type) IN
       /\ last' = UtilCalled(node.fn, FilterPrimitive(node.fn), type, queryKey, input)
       /\ cache' = resetQueries(cache, queryKey)
    /\ UNCHANGED <<node, hasUtils, bound>>

\* setData, setInfiniteData
UtilSetData(input, updater) ==
    /\ node.tree = "utilfn"
    /\ node.fn \in {"setData", "setInfiniteData"}
    /\ LET type == getQueryType(node.fn)
           queryKey == getQueryKeyInternal(node.path, input, type) IN
       /\ HasRoom(queryKey)
       /\ last' = [UtilCalled(node.fn, "setQueryData", type, queryKey, input)
                       EXCEPT !.ret = updater, !.data = updater]
       /\ cache' = setQueryData(cache, queryKey, updater)
    /\ UNCHANGED <<node, hasUtils, bound>>

\* getData, getInfiniteData
UtilGetData(input) ==
    /\ node.tree = "utilfn"
    /\ node.fn \in {"getData", "getInfiniteData"}
    /\ LET type == getQueryType(node.fn)
           queryKey == getQueryKeyInternal(node.path, input, type) IN
       last' = [UtilCalled(node.fn, "getQueryData", type, queryKey, input)
                    EXCEPT !.ret = getQueryData(cache, queryKey),
                           !.data = getQueryData(cache, queryKey)]
    /\ UNCHANGED <<node, cache, hasUtils, bound>>

\* setMutationDefaults, isMutating
UtilMutation ==
    /\ node.tree = "utilfn"
    /\ node.fn \in {"setMutationDefaults", "isMutating"}
    /\ last' = [UtilCalled(node.fn, node.fn, "any", getMutationKeyInternal(node.path), Undef)
                    EXCEPT !.ret = IF node.fn = "isMutating" THEN "number" ELSE "undefined"]
    /\ UNCHANGED <<node, cache, hasUtils, bound>>

\* getMutationDefaults: warns and returns undefined
UtilGetMutationDefaults ==
    /\ node.tree = "utilfn"
    /\ node.fn = "getMutationDefaults"
    /\ last' = [NoLast EXCEPT !.op = node.fn, !.ret = "undefined", !.p = node.path]
    /\ UNCHANGED <<node, cache, hasUtils, bound>>

\* ----------------------------------------------------------- specification

Next ==
    \/ \E seg \in PathSegs \cup ApiFinals \cup {"opts"} : Get(seg)
    \/ Root
    \/ ApplyDef
    \/ \E input \in Inputs, opts \in OptsArgs : ApplyQuery("createQuery", "query", input, opts)
    \/ \E input \in Inputs, opts \in OptsArgs :
          ApplyQuery("createInfiniteQuery", "infinite", input, opts)
    \/ \E opts \in {Undef, ObjE} : ApplyMutation(opts)
    \/ \E input \in UtilInputs, type \in TypeArgs : ApplyQueryKey(input, type)
    \/ ApplyUtils
    \/ \E batch \in Batches : ApplyQueries(batch)
    \/ \E batch \in Batches : ApplyServerQueries(batch)
    \/ ApplyOffRoot
    \/ \E input \in UtilInputs : ApplyUnmatched(input)
    \/ \E input \in KeyInputs, type \in TypeArgs : GetQueryKeyFn(input, type)
    \/ UtilsRoot
    \/ \E seg \in PathSegs : UtilGet(seg)
    \/ UtilClient
    \/ \E name \in UtilNames : UtilFn(name)
    \/ \E input \in UtilInputs : UtilFetch(input)
    \/ \E input \in UtilInputs : UtilFilter(input)
    \/ \E input \in UtilInputs : UtilReset(input)
    \/ \E input \in UtilInputs, updater \in Data : UtilSetData(input, updater)
    \/ \E input \in UtilInputs : UtilGetData(input)
    \/ UtilMutation
    \/ UtilGetMutationDefaults
    \/ Gc

Spec == Init /\ [][Next]_vars

\* ------------------------------------------- the query binders, in full
\* procedures[Procedure.query] and procedures[Procedure.infiniteQuery] with
\* the stores and closures they leave with the component.  The closures hold
\* the path array of the proxy node that was invoked, so they read node.path.

True == Val("boolean", "true", {})
False == Val("boolean", "false", {})

\* const blank = Symbol('blank'); what blankStore emits
Blank == Val("symbol", "blank", {})
isBlank(v) == v = Blank

\* a ?? b
Coalesce(a, b) == IF ~a.s /\ a.k \in {"undefined", "null"} THEN b ELSE a

\* a && b
AndThen(a, b) == IF Truthy(a) THEN b ELSE a

\* a pending promise handed to the resolver
Promise == Val("object", "promise", {})

\* { ...obj, name: value }
SetField(fields, name, payload) ==
    {f \in fields : f[1] # name} \cup {<<name, payload>>}

\* how a value is written as a field's payload
Payload(v) == IF v.k = "null" THEN "null" ELSE v.p

\* { ...(value ?? {}) }: the own fields of an object, none of anything else
Spread(v) == IF v.k = "object" /\ ~v.s THEN v.o ELSE {}

\* options of the binders; trpc.abortOnUnmount is the field "trpc.abortOnUnmount"
ObjLazyOff == Obj({<<"lazy", "true">>, <<"enabled", "false">>})
ObjEnabledOff == Obj({<<"enabled", "false">>})
ObjAbort == Obj({<<"trpc.abortOnUnmount", "true">>})
ObjNoAbort == Obj({<<"trpc.abortOnUnmount", "false">>})
ObjInitialCursor == Obj({<<"initialCursor", "7">>})

\* the access chains the component invokes, and what it passes
BoundPaths == {<<"todos">>, <<"todos", "get">>}
QueryArgs == {Undef, Null, ObjCF, StoreOf(ObjCF), StoreOf(Undef)}
QueryOpts ==
    {Undef, ObjLazy, ObjLazyOff, ObjAbort, ObjNoAbort, ObjInitialCursor,
     StoreOf(ObjAbort), StoreOf(ObjLazy)}
\* what the input store and the options store emit later
InputEmits == {Undef, Null, ObjF}
OptsEmits == {Undef, ObjEnabledOff, ObjNoAbort}
\* the page requests of the query observer
PageParams == {Null, Num0, Num1}
Directions == {"forward", "backward"}
\* the adapter-wide abortOnUnmount given to svelteQueryWrapper
AdapterAbort == {Undef, True}

\* what the promise handed to the resolver resolves with
Resolved == {"v1"}

NoCall == [made |-> FALSE]

\* currentOpts?.trpc?.abortOnUnmount ?? abortOnUnmount
shouldAbortOnUnmount(opts, adapterWide) ==
    Coalesce(Field(opts, "trpc.abortOnUnmount"), adapterWide)

enabledFieldAlways(enabled, newOpts) == Coalesce(Field(newOpts, "enabled"), True)

\* ...(!isBlank($enabled) && { enabled: $enabled && (newOpts?.enabled ?? true) })
enabledField(enabled, newOpts) ==
    AndThen(enabled, Coalesce(Field(newOpts, "enabled"), True))

\* the descriptor the derived store computes from [$input, $opts, $enabled]
derivedDescriptor(type, path, sin, sopts, enabled, procedureInput, currentOpts) ==
    LET currentProcedureInputVal == IF ~isBlank(sin) THEN sin ELSE procedureInput
        newOpts == IF ~isBlank(sopts) THEN sopts ELSE currentOpts
    IN  [key |-> getQueryKeyInternal(path, currentProcedureInputVal, type),
         input |-> currentProcedureInputVal,
         opts |-> newOpts,
         hasEnabled |-> ~isBlank(enabled),
         enabled |-> IF isBlank(enabled) THEN Undef ELSE enabledField(enabled, newOpts),
         initialPageParam |->
             IF type = "infinite" THEN Coalesce(Field(newOpts, "initialCursor"), Null)
             ELSE Undef]

\* the descriptor of the static branch: { ...currentOpts, queryKey, queryFn }
staticDescriptor(type, path, procedureInput, currentOpts) ==
    [key |-> getQueryKeyInternal(path, procedureInput, type),
     input |-> procedureInput,
     opts |-> currentOpts,
     hasEnabled |-> FALSE,
     enabled |-> Undef,
     initialPageParam |->
         IF type = "infinite" THEN Coalesce(Field(currentOpts, "initialCursor"), Null)
         ELSE Undef]

\* the binder, from its call to its return
bindQuery(op, type, path, procedureInput, opts, adapterWide) ==
    IF isSvelteStore(opts) = "TypeError" \/ isSvelteStore(procedureInput) = "TypeError"
    THEN [kind |-> "threw", op |-> op, abortOnUnmount |-> adapterWide]
    ELSE
        LET isOptsStore == isSvelteStore(opts) = "true"
            isInputStore == isSvelteStore(procedureInput) = "true"
            currentOpts == IF isOptsStore THEN get(opts) ELSE opts
            baseQueryKey ==
                getQueryKeyInternal(path, IF isInputStore THEN ObjE ELSE procedureInput, type)
            lazy == Truthy(Field(currentOpts, "lazy"))
            static == ~isInputStore /\ ~isOptsStore /\ ~lazy
            sin == IF isInputStore THEN get(procedureInput) ELSE Blank
            sopts == IF isOptsStore THEN get(opts) ELSE Blank
            enabled == IF lazy THEN False ELSE Blank
        IN  [kind |-> "query", op |-> op, type |-> type,
             abortOnUnmount |-> adapterWide,
             branch |-> IF static THEN "static" ELSE "reactive",
             procedureInput |-> procedureInput, opts |-> opts, currentOpts |-> currentOpts,
             lazy |-> lazy, baseQueryKey |-> baseQueryKey,
             shouldAbortOnUnmount |-> shouldAbortOnUnmount(currentOpts, adapterWide),
             sin |-> sin, sopts |-> sopts, enabled |-> enabled,
             desc |-> IF static
                      THEN staticDescriptor(type, path, procedureInput, currentOpts)
                      ELSE derivedDescriptor(type, path, sin, sopts, enabled,
                                             procedureInput, currentOpts),
             resolver |-> "idle", completed |-> FALSE, rejected |-> FALSE,
             seed |-> [done |-> FALSE],
             call |-> NoCall]

\* apply on a node whose last key is createQuery / createInfiniteQuery
BindQuery(op, type, procedureInput, opts) ==
    /\ bound.kind = "none"
    /\ CanApply
    /\ PopKey(node.path) = op
    /\ bound' = bindQuery(op, type, PopRest(node.path), procedureInput, opts,
                          bound.abortOnUnmount)
    /\ node' = Applied(PopRest(node.path))
    /\ UNCHANGED <<last, cache, hasUtils>>

\* the derived store recomputes the descriptor
Rederived(b) ==
    [b EXCEPT !.desc = derivedDescriptor(b.type, node.path, b.sin, b.sopts, b.enabled,
                                          b.procedureInput, b.currentOpts),
              !.call = NoCall]

\* the input store emits
InputEmit(v) ==
    /\ bound.kind = "query"
    /\ bound.procedureInput.s
    /\ v # bound.sin
    /\ bound' = Rederived([bound EXCEPT !.sin = v])
    /\ UNCHANGED <<node, last, cache, hasUtils>>

\* the options store emits
OptsEmit(o) ==
    /\ bound.kind = "query"
    /\ bound.opts.s
    /\ o # bound.sopts
    /\ bound' = Rederived([bound EXCEPT !.sopts = o])
    /\ UNCHANGED <<node, last, cache, hasUtils>>

\* what the resolver writes: the value, or for an infinite query its first page
seedData(b, v) ==
    IF b.type = "infinite"
    THEN [pages |-> <<v>>,
          pageParams |-> <<Coalesce(Field(b.currentOpts, "initialCursor"), Null)>>]
    ELSE v

\* the resolver async (data) => { if (data) setQueryData(baseQueryKey, await data);
\* enabled.set(true) }, up to its await
ResolverCall(data) ==
    /\ bound.kind = "query"
    /\ bound.lazy
    /\ bound.resolver = "idle"
    /\ bound' = IF Truthy(data)
                THEN [bound EXCEPT !.resolver = "pending", !.rejected = FALSE]
                ELSE Rederived([bound EXCEPT !.enabled = True, !.completed = TRUE,
                                             !.rejected = FALSE])
    /\ UNCHANGED <<node, last, cache, hasUtils>>

\* the awaited promise resolves: the rest of the resolver runs
PromiseResolve(v) ==
    /\ bound.kind = "query"
    /\ bound.resolver = "pending"
    /\ cache' = setQueryData(cache, bound.baseQueryKey, seedData(bound, v))
    /\ bound' = Rederived([bound EXCEPT !.enabled = True, !.completed = TRUE,
                                        !.resolver = "idle",
                                        !.seed = [done |-> TRUE, v |-> v,
                                                  first |-> ~bound.completed,
                                                  enabledBefore |-> bound.enabled]])
    /\ UNCHANGED <<node, last, hasUtils>>

afterRejectEnables(b) ==
    [b EXCEPT !.resolver = "idle", !.rejected = TRUE, !.enabled = True, !.completed = TRUE]

\* await data throws: the statements after it do not run
afterReject(b) == [b EXCEPT !.resolver = "idle", !.rejected = TRUE]

\* the awaited promise rejects: the resolver's promise rejects with the error
PromiseReject ==
    /\ bound.kind = "query"
    /\ bound.resolver = "pending"
    /\ bound' = afterReject(bound)
    /\ UNCHANGED <<node, last, cache, hasUtils>>

\* { ...(input ?? {}), ...(pageParam ? { cursor: pageParam } : {}), direction }
actualInput(input, pageParam, direction) ==
    LET withCursor ==
            IF Truthy(pageParam) THEN SetField(Spread(input), "cursor", Payload(pageParam))
            ELSE Spread(input)
    IN  Obj(SetField(withCursor, "direction", direction))

\* the descriptor is one the query observer fetches for
Fetchable(d) ==
    /\ ~(d.hasEnabled /\ ~Truthy(d.enabled))
    /\ Truthy(Coalesce(Field(d.opts, "enabled"), True))

\* the query observer runs queryFn({ pageParam, signal, direction }) of the
\* current descriptor: the remote call it makes
RunQueryFn(pageParam, direction) ==
    /\ bound.kind = "query"
    /\ Fetchable(bound.desc)
    /\ bound.type = "query" => pageParam = Null /\ direction = "forward"
    /\ bound' =
          [bound EXCEPT !.call =
              [made |-> TRUE,
               path |-> node.path,
               method |-> "query",
               pageParam |-> pageParam,
               direction |-> direction,
               input |-> IF bound.type = "infinite"
                         THEN actualInput(bound.desc.input, pageParam, direction)
                         ELSE bound.desc.input,
               signal |-> Truthy(bound.shouldAbortOnUnmount)]]
    /\ UNCHANGED <<node, last, cache, hasUtils>>

\* the chains the component holds before it binds a query
QueryChains == {Append(p, op) : p \in BoundPaths, op \in {"createQuery", "createInfiniteQuery"}}

InitQuery ==
    /\ \E c \in QueryChains :
          node = [tree |-> "api", path |-> c, accessed |-> c, applied |-> 0, fn |-> "none"]
    /\ last = NoLast
    /\ cache = <<>>
    /\ hasUtils = FALSE
    /\ \E a \in AdapterAbort : bound = [kind |-> "none", abortOnUnmount |-> a]

NextQuery ==
    \/ \E input \in QueryArgs, opts \in QueryOpts : BindQuery("createQuery", "query", input, opts)
    \/ \E input \in QueryArgs, opts \in QueryOpts :
          BindQuery("createInfiniteQuery", "infinite", input, opts)
    \/ ApplyUnmatched(Undef)
    \/ \E v \in InputEmits : InputEmit(v)
    \/ \E o \in OptsEmits : OptsEmit(o)
    \/ \E data \in {Undef, Promise} : ResolverCall(data)
    \/ \E v \in Resolved : PromiseResolve(v)
    \/ PromiseReject
    \/ \E pageParam \in PageParams, direction \in Directions : RunQueryFn(pageParam, direction)

SpecQuery == InitQuery /\ [][NextQuery]_vars

\* ----------------------------------- the server-preload binders, in full
\* procedures[Procedure.serverQuery], [Procedure.serverInfiniteQuery] and
\* [Procedure.serverQueries]: the first stage up to its await, the second
\* stage the component calls, and the stale-time store reset on mount.

\* writable<number | null>(Infinity)
Infinity == Val("number", "Infinity", {})

\* a function given as the first argument of the second stage
Updater == Val("function", "updater", {})

ObjSsrOff == Obj({<<"ssr", "false">>})
ObjStale == Obj({<<"staleTime", "5">>})

\* what the first stage is called with
ServerInputs == {Undef, ObjF}
ServerOpts == {Undef, ObjSsrOff, ObjStale}
\* what the cache may hold before the first stage: data, or the empty string
CachedData == {"v1", ""}
\* the arguments of the second stage
SecondArgs ==
    {<<>>, <<ObjCF>>, <<Updater>>, <<StoreOf(ObjF)>>, <<ObjF, ObjStale>>,
     <<ObjF, StoreOf(ObjStale)>>}
\* the batch callbacks given to createServerQueries and to its second stage
ServerBatches ==
    {<<[p |-> <<"todos", "get">>, i |-> Undef]>>, <<[p |-> <<"todos">>, i |-> ObjCF]>>}
\* what the stores given to the second stage emit later
ServerInputEmits == {ObjCF}
ServerOptsEmits == {Undef, ObjStale}

\* const cacheNotFound = !cache?.state?.data
cacheNotFound(c, key) == getQueryData(c, key) \in {"none", ""}

\* opts?.ssr !== false && cacheNotFound
shouldPrefetch(opts, c, key) == Field(opts, "ssr") # False /\ cacheNotFound(c, key)

staleTimeFieldCaller(staleTime, newOpts) ==
    Coalesce(Field(newOpts, "staleTime"), staleTime)

\* { ...newOpts, ..., ...($staleTime && { staleTime: $staleTime }) }.staleTime
staleTimeField(staleTime, newOpts) ==
    IF Truthy(staleTime) THEN staleTime ELSE Field(newOpts, "staleTime")

\* the descriptor the derived store computes from [$input, $opts, $staleTime]
serverDescriptor(type, path, sin, sopts, staleTime, procedureInput, currentOpts) ==
    LET currentProcedureInputVal == IF ~isBlank(sin) THEN sin ELSE procedureInput
        newOpts == IF ~isBlank(sopts) THEN sopts ELSE currentOpts
    IN  [key |-> getQueryKeyInternal(path, currentProcedureInputVal, type),
         input |-> currentProcedureInputVal,
         opts |-> newOpts,
         staleTime |-> staleTimeField(staleTime, newOpts)]

\* newQueries.map((query) => ({ ...query, ...($staleTime && { staleTime }) }))
batchDescriptors(queries, staleTime) ==
    [n \in DOMAIN queries |->
        [key |-> queries[n].key, staleTime |-> staleTimeField(staleTime, Undef)]]

NoDesc == [key |-> <<>>, input |-> Undef, opts |-> Undef, staleTime |-> Undef]

\* the first stage async (_input, _opts) => ..., up to its await or its return
ServerFirstStage(op, type, input, opts) ==
    /\ bound.kind = "none"
    /\ CanApply
    /\ PopKey(node.path) = op
    /\ LET path == PopRest(node.path)
           queryKey == getQueryKeyInternal(path, input, type)
           prefetch == shouldPrefetch(opts, cache, queryKey)
       IN  bound' = [kind |-> "server", op |-> op, type |-> type,
                     abortOnUnmount |-> bound.abortOnUnmount,
                     procedureInput |-> input, opts |-> opts,
                     preInput |-> input, preOpts |-> opts,
                     queryKey |-> queryKey,
                     held |-> queryKey \in DOMAIN cache,
                     prefetch |-> prefetch,
                     stage |-> IF prefetch THEN "prefetching" ELSE "ready",
                     second |-> FALSE, args |-> <<>>,
                     currentOpts |-> Undef, shouldAbortOnUnmount |-> Undef,
                     sin |-> Blank, sopts |-> Blank,
                     staleTime |-> Undef, mounted |-> FALSE,
                     queries |-> <<>>, descs |-> <<>>,
                     desc |-> NoDesc]
    /\ node' = Applied(PopRest(node.path))
    /\ UNCHANGED <<last, cache, hasUtils>>

\* the first stage of createServerQueries at the root, up to its await
ServerQueriesFirstStage(batch) ==
    /\ bound.kind = "none"
    /\ CanApply
    /\ PopKey(node.path) = "createServerQueries"
    /\ RootOnlyFactory(PopRest(node.path)) = "function"
    /\ LET queries == Descriptors(batch)
           prefetch == \E n \in DOMAIN queries : cacheNotFound(cache, queries[n].key)
       IN  bound' = [kind |-> "server", op |-> "createServerQueries", type |-> "batch",
                     abortOnUnmount |-> bound.abortOnUnmount,
                     procedureInput |-> Undef, opts |-> Undef,
                     preInput |-> Undef, preOpts |-> Undef,
                     queryKey |-> <<>>,
                     held |-> \A n \in DOMAIN queries : queries[n].key \in DOMAIN cache,
                     prefetch |-> prefetch,
                     stage |-> IF prefetch THEN "prefetching" ELSE "ready",
                     second |-> FALSE, args |-> <<>>,
                     currentOpts |-> Undef, shouldAbortOnUnmount |-> Undef,
                     sin |-> Blank, sopts |-> Blank,
                     staleTime |-> Undef, mounted |-> FALSE,
                     queries |-> queries, descs |-> <<>>,
                     desc |-> NoDesc]
    /\ node' = Applied(PopRest(node.path))
    /\ UNCHANGED <<last, cache, hasUtils>>

\* what a prefetch that succeeds leaves in the cache
Prefetched(type) == IF type = "infinite" THEN "pages" ELSE "v2"

\* the awaited prefetch settles (it never rejects): the first stage returns
PrefetchSettle(ok) ==
    /\ bound.kind = "server"
    /\ bound.stage = "prefetching"
    /\ cache' = IF ok /\ bound.type # "batch"
                THEN setQueryData(cache, bound.queryKey, Prefetched(bound.type))
                ELSE cache
    /\ bound' = [bound EXCEPT !.stage = "ready"]
    /\ UNCHANGED <<node, last, hasUtils>>

\* the second stage (...args) => createQuery(derived(...)) of a single query
SecondStage(args) ==
    /\ bound.kind = "server"
    /\ bound.type # "batch"
    /\ bound.stage = "ready"
    /\ ~bound.second
    /\ LET procedureInput == IF Len(args) > 0 THEN args[1] ELSE bound.procedureInput
           opts == IF Len(args) > 1 THEN args[2] ELSE bound.opts
           isOptsStore == isSvelteStore(opts) = "true"
           currentOpts == IF isOptsStore THEN get(opts) ELSE opts
           sin == IF isSvelteStore(procedureInput) = "true" THEN get(procedureInput)
                  ELSE Blank
           sopts == IF isOptsStore THEN get(opts) ELSE Blank
       IN  bound' = [bound EXCEPT
                        !.procedureInput = procedureInput, !.opts = opts,
                        !.second = TRUE, !.args = args,
                        !.currentOpts = currentOpts,
                        !.shouldAbortOnUnmount =
                            shouldAbortOnUnmount(currentOpts, bound.abortOnUnmount),
                        !.sin = sin, !.sopts = sopts,
                        !.staleTime = Infinity,
                        !.desc = serverDescriptor(bound.type, node.path, sin, sopts,
                                                  Infinity, procedureInput, currentOpts)]
    /\ UNCHANGED <<node, last, cache, hasUtils>>

\* the second stage of createServerQueries: its callback, when given, is
\* called with the batch tree and the preloaded queries
ServerQueriesSecondStage(given, batch) ==
    /\ bound.kind = "server"
    /\ bound.type = "batch"
    /\ bound.stage = "ready"
    /\ ~bound.second
    /\ LET queries == IF given THEN Descriptors(batch) ELSE bound.queries
       IN  bound' = [bound EXCEPT
                        !.queries = queries, !.second = TRUE,
                        !.args = IF given THEN <<Updater>> ELSE <<>>,
                        !.staleTime = Infinity,
                        !.descs = batchDescriptors(queries, Infinity)]
    /\ UNCHANGED <<node, last, cache, hasUtils>>

\* the derived store of the second stage recomputes what it emits
ServerRederived(b) ==
    IF b.type = "batch"
    THEN [b EXCEPT !.descs = batchDescriptors(b.queries, b.staleTime)]
    ELSE [b EXCEPT !.desc = serverDescriptor(b.type, node.path, b.sin, b.sopts,
                                              b.staleTime, b.procedureInput,
                                              b.currentOpts)]

\* onMount(() => { staleTime.set(null); })
Mount ==
    /\ bound.kind = "server"
    /\ bound.second
    /\ ~bound.mounted
    /\ bound' = ServerRederived([bound EXCEPT !.staleTime = Null, !.mounted = TRUE])
    /\ UNCHANGED <<node, last, cache, hasUtils>>

\* the input store given to the second stage emits
ServerInputEmit(v) ==
    /\ bound.kind = "server"
    /\ bound.second
    /\ bound.procedureInput.s
    /\ v # bound.sin
    /\ bound' = ServerRederived([bound EXCEPT !.sin = v])
    /\ UNCHANGED <<node, last, cache, hasUtils>>

\* the options store given to the second stage emits
ServerOptsEmit(o) ==
    /\ bound.kind = "server"
    /\ bound.second
    /\ bound.opts.s
    /\ o # bound.sopts
    /\ bound' = ServerRederived([bound EXCEPT !.sopts = o])
    /\ UNCHANGED <<node, last, cache, hasUtils>>

\* the chains the load function holds before it calls a first stage
ServerChains ==
    {Append(p, op) : p \in BoundPaths,
                     op \in {"createServerQuery", "createServerInfiniteQuery"}}
    \cup {<<"createServerQueries">>}

\* the keys the cache may hold an entry for before the first stage
ServerKeys ==
    {getQueryKeyInternal(p, i, t) : p \in BoundPaths, i \in ServerInputs,
                                    t \in {"query", "infinite"}}

InitServer ==
    /\ \E c \in ServerChains :
          node = [tree |-> "api", path |-> c, accessed |-> c, applied |-> 0, fn |-> "none"]
    /\ last = NoLast
    /\ \/ cache = <<>>
       \/ \E key \in ServerKeys, d \in CachedData : cache = setQueryData(<<>>, key, d)
    /\ hasUtils = FALSE
    /\ \E a \in AdapterAbort : bound = [kind |-> "none", abortOnUnmount |-> a]

NextServer ==
    \/ \E input \in ServerInputs, opts \in ServerOpts :
          ServerFirstStage("createServerQuery", "query", input, opts)
    \/ \E input \in ServerInputs, opts \in ServerOpts :
          ServerFirstStage("createServerInfiniteQuery", "infinite", input, opts)
    \/ \E batch \in ServerBatches : ServerQueriesFirstStage(batch)
    \/ \E ok \in BOOLEAN : PrefetchSettle(ok)
    \/ \E args \in SecondArgs : SecondStage(args)
    \/ \E given \in BOOLEAN, batch \in ServerBatches : ServerQueriesSecondStage(given, batch)
    \/ Mount
    \/ \E v \in ServerInputEmits : ServerInputEmit(v)
    \/ \E o \in ServerOptsEmits : ServerOptsEmit(o)
    \/ ApplyUnmatched(Undef)

SpecServer == InitServer /\ [][NextServer]_vars

\* ------------------------------------------- the mutation binder, in full
\* procedures[Procedure.mutate]: the descriptor given to createMutation, its
\* mutationFn and its onSuccess wrapper as the cache layer calls them.

ObjOnSuccess == Obj({<<"onSuccess", "fn">>})
ObjOnSuccessTrpc == Obj({<<"onSuccess", "fn">>, <<"trpc", "ctx">>})

\* what createMutation is called with
MutationOpts == {Undef, ObjOnSuccess, ObjOnSuccessTrpc}
\* the inputs of the mutations the component starts
MutationInputs == {Undef, ObjF}
\* the arguments (data, variables) the cache layer gives to onSuccess
SuccessArgs == {<<Str("v1"), Undef>>, <<Str("v2"), ObjF>>}
\* what the caller's onSuccess returns
SuccessResults == {Undef, Promise}
\* how many mutations of one binder succeed
MaxSuccess == 2

\* const mutationSuccessOverride = (options) => options.originalFn()
mutationSuccessOverride(originalFn) == originalFn

\* onSuccess: opts?.onSuccess ? (...args) => { ... } : undefined
onSuccessField(opts) == IF Truthy(Field(opts, "onSuccess")) THEN "wrapper" ELSE "undefined"

\* apply on a node whose last key is createMutation
BindMutation(opts) ==
    /\ bound.kind = "none"
    /\ CanApply
    /\ PopKey(node.path) = "createMutation"
    /\ bound' = [kind |-> "mutation", op |-> "createMutation",
                 abortOnUnmount |-> bound.abortOnUnmount,
                 opts |-> opts,
                 mutationKey |-> getMutationKeyInternal(PopRest(node.path)),
                 onSuccess |-> onSuccessField(opts),
                 wrapperCalls |-> 0, userCalls |-> 0,
                 wrapperArgs |-> <<>>, userArgs |-> <<>>,
                 userRet |-> Undef, wrapperRet |-> Undef,
                 call |-> NoCall]
    /\ node' = Applied(PopRest(node.path))
    /\ UNCHANGED <<last, cache, hasUtils>>

\* the cache layer runs mutationFn(procedureInput): the remote call it makes
RunMutationFn(procedureInput) ==
    /\ bound.kind = "mutation"
    /\ bound' = [bound EXCEPT !.call =
                    [made |-> TRUE, path |-> node.path, method |-> "mutate",
                     given |-> procedureInput, input |-> procedureInput,
                     opts |-> Field(bound.opts, "trpc")]]
    /\ UNCHANGED <<node, last, cache, hasUtils>>

\* the cache layer calls the descriptor's onSuccess(...args): the wrapper
\* builds originalFn = () => opts.onSuccess(...args) and returns the result
\* of mutationSuccessOverride({ originalFn, queryClient, meta })
MutationSuccess(args, result) ==
    /\ bound.kind = "mutation"
    /\ bound.onSuccess = "wrapper"
    /\ bound.wrapperCalls < MaxSuccess
    /\ LET originalFn == [args |-> args, ret |-> result]
           returned == mutationSuccessOverride(originalFn)
       IN  bound' = [bound EXCEPT !.wrapperCalls = @ + 1,
                                  !.wrapperArgs = args,
                                  !.userCalls = @ + 1,
                                  !.userArgs = returned.args,
                                  !.userRet = result,
                                  !.wrapperRet = returned.ret]
    /\ UNCHANGED <<node, last, cache, hasUtils>>

\* the chains the component holds before it binds a mutation
MutationChains == {Append(p, "createMutation") : p \in BoundPaths}

InitMutation ==
    /\ \E c \in MutationChains :
          node = [tree |-> "api", path |-> c, accessed |-> c, applied |-> 0, fn |-> "none"]
    /\ last = NoLast
    /\ cache = <<>>
    /\ hasUtils = FALSE
    /\ \E a \in AdapterAbort : bound = [kind |-> "none", abortOnUnmount |-> a]

NextMutation ==
    \/ \E opts \in MutationOpts : BindMutation(opts)
    \/ \E procedureInput \in MutationInputs : RunMutationFn(procedureInput)
    \/ \E args \in SuccessArgs, result \in SuccessResults : MutationSuccess(args, result)
    \/ ApplyUnmatched(Undef)

SpecMutation == InitMutation /\ [][NextMutation]_vars

\* --------------------------------------- the subscription binder, in full
\* procedures[Procedure.subscribe] and effect(): the values the binder reads
\* once, the effect run by the host's update cycles, the subscription it
\* holds, the transport's events and the teardown.

ObjEnabledOn == Obj({<<"enabled", "true">>})

\* what createSubscription is called with
SubscriptionInputs == {Undef, ObjF}
SubscriptionOpts == {Undef, ObjEnabledOn, ObjEnabledOff}
\* what the caller later writes to opts.enabled
EnabledWrites == {"true", "false"}
\* what the transport delivers
TransportEvents == {"started", "data", "error"}

\* hashKey of the cache layer: the JSON text of the key
hashKey(key) == <<"hash", key>>

NoSub == [made |-> FALSE]
NoEvent == [ev |-> "none"]

forwardsAlways(isStopped) == TRUE

\* onData: (data) => { if (!isStopped) opts?.onData?.(data); } and its like
forwards(isStopped) == ~isStopped

destroyCleanupNone(cleanup) == FALSE

\* onDestroy(() => { if (cleanup) cleanup(); })
destroyCleanup(cleanup) == cleanup

\* apply on a node whose last key is createSubscription: enabled and the
\* hashed key are computed, and the effect is registered
BindSubscription(procedureInput, opts) ==
    /\ bound.kind = "none"
    /\ CanApply
    /\ PopKey(node.path) = "createSubscription"
    /\ bound' = [kind |-> "subscription", op |-> "createSubscription",
                 abortOnUnmount |-> bound.abortOnUnmount,
                 procedureInput |-> procedureInput, opts |-> opts,
                 enabled |-> Coalesce(Field(opts, "enabled"), True),
                 queryKey |->
                     hashKey(getQueryKeyInternal(PopRest(node.path), procedureInput, "any")),
                 values |-> <<>>, updated |-> FALSE,
                 cleanup |-> FALSE,
                 sub |-> NoSub,
                 open |-> 0,
                 event |-> NoEvent,
                 destroyed |-> FALSE]
    /\ node' = Applied(PopRest(node.path))
    /\ UNCHANGED <<last, cache, hasUtils>>

\* the caller writes opts.enabled on the options object it passed; a host
\* update cycle is due
CallerSetsEnabled(v) ==
    /\ bound.kind = "subscription"
    /\ bound.opts.k = "object"
    /\ ~bound.destroyed
    /\ <<"enabled", v>> \notin bound.opts.o
    /\ bound' = [bound EXCEPT !.opts = Obj(SetField(bound.opts.o, "enabled", v)),
                              !.updated = FALSE]
    /\ UNCHANGED <<node, last, cache, hasUtils>>

\* the cleanup the effect body returned, run at once by apply():
\* isStopped = true; unsubscribe()
cleanedUp(b) ==
    [b EXCEPT !.open = @ - 1,
              !.sub = [@ EXCEPT !.isStopped = TRUE, !.torn = TRUE,
                                !.phase = "unsubscribed", !.unsubscribed = @ + 1]]

\* the effect body: if (!enabled) return; subscribe to the leaf at path
effectBody(b) ==
    IF ~Truthy(b.enabled) THEN [b EXCEPT !.cleanup = FALSE]
    ELSE [b EXCEPT !.cleanup = TRUE,
                   !.open = @ + 1,
                   !.sub = [made |-> TRUE, path |-> node.path, method |-> "subscribe",
                            input |-> b.procedureInput,
                            isStopped |-> FALSE, torn |-> FALSE, phase |-> "active",
                            unsubscribed |-> 0]]

\* afterUpdate(() => { const new_values = deps(); if (some differ) { apply();
\* values = new_values } }) with deps = () => [queryKey, enabled]
AfterUpdate ==
    /\ bound.kind = "subscription"
    /\ ~bound.destroyed
    /\ ~(bound.sub.made /\ bound.sub.phase = "unsubscribing")
    /\ LET new_values == <<bound.queryKey, bound.enabled>>
           cleaned == IF bound.cleanup THEN cleanedUp(bound) ELSE bound
       IN  bound' = IF new_values # bound.values
                    THEN [effectBody(cleaned) EXCEPT !.values = new_values,
                                                     !.updated = TRUE]
                    ELSE [bound EXCEPT !.updated = TRUE]
    /\ UNCHANGED <<node, last, cache, hasUtils>>

\* the component is destroyed: onDestroy runs the cleanup, which sets
\* isStopped and calls unsubscribe()
DestroyBegin ==
    /\ bound.kind = "subscription"
    /\ ~bound.destroyed
    /\ bound' = IF destroyCleanup(bound.cleanup)
                THEN [bound EXCEPT !.destroyed = TRUE,
                                   !.open = @ - 1,
                                   !.sub = [@ EXCEPT !.isStopped = TRUE, !.torn = TRUE,
                                                     !.phase = "unsubscribing",
                                                     !.unsubscribed = @ + 1]]
                ELSE [bound EXCEPT !.destroyed = TRUE]
    /\ UNCHANGED <<node, last, cache, hasUtils>>

\* unsubscribe() returns
UnsubscribeReturns ==
    /\ bound.kind = "subscription"
    /\ bound.sub.made
    /\ bound.sub.phase = "unsubscribing"
    /\ bound' = [bound EXCEPT !.sub = [@ EXCEPT !.phase = "unsubscribed"]]
    /\ UNCHANGED <<node, last, cache, hasUtils>>

\* the transport calls onStarted, onData or onError of the subscription, at
\* any time after subscribe: before, during or after unsubscribe()
TransportEvent(ev) ==
    /\ bound.kind = "subscription"
    /\ bound.sub.made
    /\ bound' = [bound EXCEPT !.event = [ev |-> ev, torn |-> bound.sub.torn,
                                         phase |-> bound.sub.phase,
                                         forwarded |-> forwards(bound.sub.isStopped)]]
    /\ UNCHANGED <<node, last, cache, hasUtils>>

\* the chains the component holds before it binds a subscription
SubscriptionChains == {Append(p, "createSubscription") : p \in BoundPaths}

InitSubscription ==
    /\ \E c \in SubscriptionChains :
          node = [tree |-> "api", path |-> c, accessed |-> c, applied |-> 0, fn |-> "none"]
    /\ last = NoLast
    /\ cache = <<>>
    /\ hasUtils = FALSE
    /\ \E a \in AdapterAbort : bound = [kind |-> "none", abortOnUnmount |-> a]

NextSubscription ==
    \/ \E procedureInput \in SubscriptionInputs, opts \in SubscriptionOpts :
          BindSubscription(procedureInput, opts)
    \/ \E v \in EnabledWrites : CallerSetsEnabled(v)
    \/ AfterUpdate
    \/ DestroyBegin
    \/ UnsubscribeReturns
    \/ \E ev \in TransportEvents : TransportEvent(ev)
    \/ ApplyUnmatched(Undef)

SpecSubscription == InitSubscription /\ [][NextSubscription]_vars

\* ------------------------------------------------ the batch tree, in full
\* createQueriesProxy as the callback of createQueries walks it: property
\* accesses nest, a call returns a descriptor and leaves the node's path as
\* it is, and the cache layer later runs the descriptors' fetch functions.

\* how many leaves the callback invokes
MaxLeaves == 2

\* createQueries at the root calls its callback with the batch tree
OpenBatch ==
    /\ bound.kind = "none"
    /\ CanApply
    /\ PopKey(node.path) = "createQueries"
    /\ RootOnlyFactory(PopRest(node.path)) = "function"
    /\ bound' = [kind |-> "batch", op |-> "createQueries",
                 abortOnUnmount |-> bound.abortOnUnmount,
                 tpath |-> <<>>, descs |-> <<>>, call |-> NoCall]
    /\ node' = Applied(PopRest(node.path))
    /\ UNCHANGED <<last, cache, hasUtils>>

\* get trap of the batch tree: this.nest()
BatchGet(seg) ==
    /\ bound.kind = "batch"
    /\ Append(bound.tpath, seg) \in Paths
    /\ bound' = [bound EXCEPT !.tpath = Append(bound.tpath, seg)]
    /\ UNCHANGED <<node, last, cache, hasUtils>>

\* the callback starts a new access chain from the batch tree
BatchRoot ==
    /\ bound.kind = "batch"
    /\ bound.tpath # <<>>
    /\ bound' = [bound EXCEPT !.tpath = <<>>]
    /\ UNCHANGED <<node, last, cache, hasUtils>>

\* apply trap of the batch tree: the descriptor of (this.path, input)
BatchApply(input) ==
    /\ bound.kind = "batch"
    /\ Len(bound.descs) < MaxLeaves
    /\ bound' = [bound EXCEPT
                    !.descs = Append(@, BatchDescriptor([p |-> bound.tpath, i |-> input]))]
    /\ UNCHANGED <<node, last, cache, hasUtils>>

\* the cache layer runs queryFn({ signal }) of the n-th descriptor
RunBatchQueryFn(n) ==
    /\ bound.kind = "batch"
    /\ n \in DOMAIN bound.descs
    /\ bound' = [bound EXCEPT !.call =
                    [made |-> TRUE, n |-> n, path |-> bound.descs[n].p,
                     method |-> "query", input |-> bound.descs[n].i]]
    /\ UNCHANGED <<node, last, cache, hasUtils>>

InitBatch ==
    /\ node = [tree |-> "api", path |-> <<"createQueries">>,
               accessed |-> <<"createQueries">>, applied |-> 0, fn |-> "none"]
    /\ last = NoLast
    /\ \/ cache = <<>>
       \/ \E p \in Paths, i \in UtilInputs, d \in Data :
             cache = setQueryData(<<>>, getQueryKeyInternal(p, i, "query"), d)
    /\ hasUtils = FALSE
    /\ \E a \in AdapterAbort : bound = [kind |-> "none", abortOnUnmount |-> a]

NextBatch ==
    \/ OpenBatch
    \/ \E seg \in PathSegs : BatchGet(seg)
    \/ BatchRoot
    \/ \E input \in UtilInputs : BatchApply(input)
    \/ \E n \in 1..MaxLeaves + 1 : RunBatchQueryFn(n)

SpecBatch == InitBatch /\ [][NextBatch]_vars

\* ------------------------------------ the cache-control tree, its context
\* createUtilsProxy with the one context object every property read assigns
\* to, the utility functions the caller keeps, and the arguments they hand
\* to the cache layer.

ObjThrow == Obj({<<"throwOnError", "true">>})
ObjExact == Obj({<<"exact", "true">>})

\* the paths walked on the tree and the utilities read from it
HeldPaths == {<<>>, <<"todos">>, <<"todos", "get">>}
HeldUtils == {"fetchInfinite", "invalidate", "reset", "cancel"}
\* the first argument of a utility call, and its second and third
HeldInputs == {Undef, Num0, ObjCF}
ArgPairs == {<<Undef, Undef>>, <<ObjThrow, Undef>>, <<ObjExact, ObjThrow>>}

\* what the cache holds when the tree is made
HeldCache ==
    (getQueryKeyInternal(<<"todos", "get">>, Num0, "query") :> "v1")
    @@ (getQueryKeyInternal(<<"todos", "get">>, ObjCF, "query") :> "v2")

NoFn == [held |-> FALSE]

closurePathLate(fn, ctx) == ctx.path

\* ({ path, queryClient, key }) => ...: the factory destructures the context
\* when the property is read; the utility reads its own `path` and `key`
closurePath(fn, ctx) == fn.path

closureKey(fn, ctx) == fn.key

\* the cache entries a filter with this key matches
Matched(c, key) == {k \in DOMAIN c : partialMatchKey(k, key)}

\* the call a utility makes on the query client: its primitive, the filter
\* (or fetch options) and the options argument
utilCall(name, path, key, input, second, third) ==
    LET type == getQueryType(key)
        queryKey == getQueryKeyInternal(path, input, type)
    IN  CASE name \in {"invalidate", "refetch", "reset"} ->
                [made |-> TRUE, name |-> name, prim |-> FilterPrimitive(name),
                 input |-> input, type |-> type, key |-> queryKey,
                 filters |-> Spread(second), options |-> third]
          [] name = "cancel" ->
                [made |-> TRUE, name |-> name, prim |-> FilterPrimitive(name),
                 input |-> input, type |-> type, key |-> queryKey,
                 filters |-> {}, options |-> second]
          [] OTHER ->
                [made |-> TRUE, name |-> name, prim |-> FetchPrimitive(name),
                 input |-> input, type |-> type, key |-> queryKey,
                 filters |-> Spread(second), options |-> Undef]

\* createUtils at the root: createUtilsProxy(ctx)
OpenUtils ==
    /\ bound.kind = "none"
    /\ CanApply
    /\ PopKey(node.path) \in {"createUtils", "createContext"}
    /\ RootOnlyFactory(PopRest(node.path)) = "function"
    /\ bound' = [kind |-> "utils", op |-> PopKey(node.path),
                 abortOnUnmount |-> bound.abortOnUnmount,
                 ctx |-> [path |-> PopRest(node.path), key |-> PopKey(node.path)],
                 tpath |-> <<>>, fn |-> NoFn, call |-> NoCall,
                 second |-> Undef, third |-> Undef, matched |-> {}]
    /\ node' = Applied(PopRest(node.path))
    /\ UNCHANGED <<last, cache, hasUtils>>

\* the outcome of the last call is looked at before the caller goes on
Forgotten(b) == [b EXCEPT !.call = NoCall, !.second = Undef, !.third = Undef, !.matched = {}]

\* get trap on a key that names no utility: this.nest()
HeldGet(seg) ==
    /\ bound.kind = "utils"
    /\ Append(bound.tpath, seg) \in HeldPaths
    /\ bound' = Forgotten([bound EXCEPT !.tpath = Append(bound.tpath, seg)])
    /\ UNCHANGED <<node, last, cache, hasUtils>>

\* the caller starts a new access chain from the tree
HeldRoot ==
    /\ bound.kind = "utils"
    /\ bound.tpath # <<>>
    /\ bound' = Forgotten([bound EXCEPT !.tpath = <<>>])
    /\ UNCHANGED <<node, last, cache, hasUtils>>

\* get trap on a utility name: Object.assign(ctx, { key, path: this.path })
\* and the factory's result; the caller keeps the function or drops it
HeldAccess(name, keep) ==
    /\ bound.kind = "utils"
    /\ ~keep => bound.fn.held
    /\ LET ctx == [path |-> bound.tpath, key |-> name]
       IN  bound' = Forgotten([bound EXCEPT
                        !.ctx = ctx,
                        !.fn = IF keep
                               THEN [held |-> TRUE, name |-> name,
                                     path |-> ctx.path, key |-> ctx.key,
                                     overwritten |-> FALSE]
                               ELSE [@ EXCEPT !.overwritten = TRUE]])
    /\ UNCHANGED <<node, last, cache, hasUtils>>

\* the caller calls the function it kept
HeldCall(input, second, third) ==
    /\ bound.kind = "utils"
    /\ bound.fn.held
    /\ LET call == utilCall(bound.fn.name, closurePath(bound.fn, bound.ctx),
                            closureKey(bound.fn, bound.ctx), input, second, third)
       IN  /\ bound' = [bound EXCEPT !.call = call, !.second = second, !.third = third,
                                     !.matched = Matched(cache, call.key)]
           /\ cache' = IF call.prim = "resetQueries" THEN resetQueries(cache, call.key)
                       ELSE cache
    /\ UNCHANGED <<node, last, hasUtils>>

InitUtils ==
    /\ \E op \in {"createUtils", "createContext"} :
          node = [tree |-> "api", path |-> <<op>>, accessed |-> <<op>>, applied |-> 0,
                  fn |-> "none"]
    /\ last = NoLast
    /\ cache = HeldCache
    /\ hasUtils = FALSE
    /\ \E a \in AdapterAbort : bound = [kind |-> "none", abortOnUnmount |-> a]

NextUtils ==
    \/ OpenUtils
    \/ \E seg \in PathSegs : HeldGet(seg)
    \/ HeldRoot
    \/ \E name \in HeldUtils, keep \in BOOLEAN : HeldAccess(name, keep)
    \/ \E input \in HeldInputs, args \in ArgPairs : HeldCall(input, args[1], args[2])

SpecUtils == InitUtils /\ [][NextUtils]_vars

\* ------------------------------------------------------------------ claims

\* what the key lookups (the exported getQueryKey) were asked for
KeyLookup == last.op = "getQueryKey()"
LookupType == IF last.t = "undefined" THEN "any" ELSE last.t

\* [atomic segments of p], the empty sequence when p is empty
BareKey(p) == IF flatSplit(p) = <<>> THEN <<>> ELSE <<flatSplit(p)>>

\* C1: createQuery(input, opts) after an access chain, with plain input and
\* opts and opts.lazy unset, hands the query observer a descriptor whose key
\* is the key derived from the accessed segments without the meta-operation
\* name, the original input and the type 'query'.
C1_CreateQueryKey ==
    (last.op = "createQuery" /\ ~last.i.s /\ ~last.o.s /\ ~HasField(last.o, "lazy")) =>
        /\ last.prim = "createQuery"
        /\ last.ret = "query"
        /\ last.p = Front(node.accessed)
        /\ last.key = getQueryKeyInternal(Front(node.accessed), last.i, "query")

\* C2: the key of (p, undefined, 'any') has no options element ([atoms of p],
\* or [] at the empty path); the key of every other (input, type) has exactly
\* two elements, and its options element holds `type` iff the type is 'query'
\* or 'infinite'.
C2_KeyShape ==
    KeyLookup =>
        IF last.i = Undef /\ LookupType = "any"
        THEN last.key = BareKey(last.p)
        ELSE /\ Len(last.key) = 2
             /\ ("type" \in DOMAIN last.key[2]) <=> (LookupType \in {"query", "infinite"})

\* C3: under type 'infinite' an object input holding cursor and/or direction
\* enters the key without those two fields and with every other field kept,
\* next to type 'infinite'; inputs that differ only in cursor/direction give
\* the same key; an input that is no object enters the key unmodified.
C3_InfiniteStripsCursor ==
    (KeyLookup /\ last.t = "infinite") =>
        /\ (last.i.k = "object" /\ (HasField(last.i, "cursor") \/ HasField(last.i, "direction"))) =>
              /\ last.key =
                    <<flatSplit(last.p),
                      [input |-> Obj({f \in last.i.o : f[1] \notin {"cursor", "direction"}}),
                       type |-> Str("infinite")]>>
              /\ \A j \in KeyInputs :
                    (j.k = "object"
                       /\ {f \in j.o : f[1] \notin {"cursor", "direction"}}
                            = {f \in last.i.o : f[1] \notin {"cursor", "direction"}})
                    => getQueryKeyInternal(last.p, j, "infinite") = last.key
        /\ last.i.k \in {"null", "number", "string", "boolean", "array"} =>
              last.key = <<flatSplit(last.p), [input |-> last.i, type |-> Str("infinite")]>>

C3_Witness ==
    /\ KeyLookup
    /\ last.t = "infinite"
    /\ last.i = ObjCDF
    /\ last.p = <<"todos", "get">>
    /\ last.key = <<<<"todos", "get">>, [input |-> ObjF, type |-> Str("infinite")]>>

\* C4: for every path and every type of query, infinite and any, the key
\* derived for the skip sentinel is the key derived for undefined.
C4_SkipTokenIsNoInput ==
    (KeyLookup /\ last.i = skipToken /\ last.t \in QueryTypes) =>
        last.key = getQueryKeyInternal(last.p, Undef, last.t)

\* C5 as stated: under type 'query' two (path, input) pairs have the same key
\* iff their paths have the same atomic segments and their inputs are equal.
C5_InjectiveOnInputs ==
    (KeyLookup /\ last.t = "query") =>
        \A p2 \in Paths, i2 \in KeyInputs :
            (getQueryKeyInternal(p2, i2, "query") = last.key)
                <=> (flatSplit(p2) = flatSplit(last.p) /\ i2 = last.i)

NoInput(i) == i = Undef \/ i = skipToken

\* C5: under type 'query' two (path, input) pairs have the same key iff their
\* paths have the same atomic segments and their inputs are equal once the
\* skip sentinel is read as undefined; ['todos.get'] and ['todos','get'] give
\* the same key.
C5_InjectiveUpToSkip ==
    (KeyLookup /\ last.t = "query") =>
        \A p2 \in Paths, i2 \in KeyInputs :
            (getQueryKeyInternal(p2, i2, "query") = last.key)
                <=> /\ flatSplit(p2) = flatSplit(last.p)
                    /\ (i2 = last.i \/ (NoInput(i2) /\ NoInput(last.i)))

C5_Witness ==
    /\ KeyLookup
    /\ last.t = "query"
    /\ last.p = <<"todos.get">>
    /\ last.i = ObjCF
    /\ last.key = getQueryKeyInternal(<<"todos", "get">>, ObjCF, "query")

\* the entry points of each class of key
QueryKeyed == {"createQuery", "fetch", "prefetch", "ensureData", "getData", "setData"}
InfiniteKeyed ==
    {"createInfiniteQuery", "fetchInfinite", "prefetchInfinite", "getInfiniteData",
     "setInfiniteData"}
Keyed(class) == IF class = "query" THEN QueryKeyed ELSE InfiniteKeyed

\* the key the live query of the class observes at path p for input i
ObservedKey(class, p, i) ==
    QueryBinder(IF class = "query" THEN "createQuery" ELSE "createInfiniteQuery",
                class, p, i, Undef).key

ClassOf(op) == IF op \in QueryKeyed THEN "query" ELSE "infinite"

\* every entry point of a class used the key of its path, input and class
KeysAgree ==
    /\ \A class \in {"query", "infinite"} :
          (\/ last.op \in Keyed(class) /\ last.prim # "none"
           \/ last.op \in {"getQueryKey", "getQueryKey()"} /\ last.t = class)
          => last.key = getQueryKeyInternal(last.p, get(last.i), class)
    /\ last.op \in {"createQueries", "createServerQueries"} =>
          \A n \in DOMAIN last.descs :
              last.descs[n].key
                  = getQueryKeyInternal(last.descs[n].p, last.descs[n].i, "query")

\* the entry the live query observes holds what was written, and getData at
\* the same path and input returns it
Written ==
    /\ getQueryData(cache, ObservedKey(ClassOf(last.op), last.p, last.i)) = last.data
    /\ getQueryData(cache, getQueryKeyInternal(node.path, last.i,
                               getQueryType(IF last.op = "setData" THEN "getData"
                                            ELSE "getInfiniteData"))) = last.data

\* what was read is what the entry the live query observes holds
ReadBack == last.data = getQueryData(cache, ObservedKey(ClassOf(last.op), last.p, last.i))

C7_InvalidateMatchesAll ==
    (last.op = "invalidate" /\ last.i = Undef) =>
        /\ last.prim = "invalidateQueries"
        /\ last.n = 1
        /\ last.key = BareKey(last.p)
        /\ (last.seen.any /\ IsPrefix(flatSplit(last.p), flatSplit(last.seen.p))) =>
              partialMatchKey(last.seen.key, last.key)

C7_Witness ==
    /\ last.op = "invalidate"
    /\ last.i = Undef
    /\ last.p = <<"todos", "get">>
    /\ last.key = <<<<"todos", "get">>>>
    /\ last.seen.any
    /\ last.seen.p = <<"todos.get">>
    /\ Len(last.seen.key) = 2
    /\ DOMAIN last.seen.key[2] = {"input", "type"}

\* the mapping table of the utilities: the type of the key, the cache primitive
TableType(name) ==
    CASE name \in {"fetch", "ensureData", "prefetch", "getData", "setData"} -> "query"
      [] name \in {"fetchInfinite", "prefetchInfinite", "getInfiniteData",
                   "setInfiniteData"} -> "infinite"
      [] OTHER -> "any"

TablePrimitive(name) ==
    CASE name = "fetch" -> "fetchQuery"
      [] name = "prefetch" -> "prefetchQuery"
      [] name = "ensureData" -> "ensureQueryData"
      [] name = "fetchInfinite" -> "fetchInfiniteQuery"
      [] name = "prefetchInfinite" -> "prefetchInfiniteQuery"
      [] name = "invalidate" -> "invalidateQueries"
      [] name = "refetch" -> "refetchQueries"
      [] name = "reset" -> "resetQueries"
      [] name = "cancel" -> "cancelQueries"
      [] name \in {"setData", "setInfiniteData"} -> "setQueryData"
      [] name \in {"getData", "getInfiniteData"} -> "getQueryData"
      [] OTHER -> name

UtilityCalled == node.tree = "utilfn" /\ last.op = node.fn

\* C8 as stated: every utility, getMutationDefaults included, derives its key
\* with the type of the table from its access path and makes one call of its
\* cache primitive with that key.
C8_EveryUtilityDelegates ==
    UtilityCalled =>
        /\ last.prim = TablePrimitive(node.fn)
        /\ last.n = 1
        /\ last.key = getQueryKeyInternal(node.path, last.i, TableType(node.fn))

\* C8: every utility but getMutationDefaults derives its key with the type of
\* the table from its access path and makes one call of its cache primitive
\* with that key; getMutationDefaults derives no key, calls no cache primitive
\* and returns undefined.
C8_UtilitiesDelegate ==
    UtilityCalled =>
        IF node.fn = "getMutationDefaults"
        THEN last.prim = "none" /\ last.n = 0 /\ last.ret = "undefined"
        ELSE /\ last.prim = TablePrimitive(node.fn)
             /\ last.n = 1
             /\ last.key = getQueryKeyInternal(node.path, last.i, TableType(node.fn))

C8_Witness ==
    /\ UtilityCalled
    /\ node.fn = "refetch"
    /\ node.path = <<"todos", "get">>
    /\ last.i = ObjCF
    /\ last.prim = "refetchQueries"
    /\ last.key = <<<<"todos", "get">>, [input |-> ObjCF]>>

\* C9: a call whose final segment is no meta-operation is forwarded to the
\* remote-procedure client at the full accessed path, and returns the
\* client's result.
C9_UnmatchedForwarded ==
    (node.tree = "api" /\ node.applied = 1 /\ node.accessed # <<>>
       /\ node.accessed[Len(node.accessed)] \notin ProcedureNames \cup {"_def"}) =>
        /\ last.client = node.accessed
        /\ last.ret = "client result"

\* C10: createUtils, createContext, createQueries or createServerQueries
\* called at a non-empty path does not throw and returns undefined.
C10_OffRootReturnsUndefined ==
    (last.op \in RootOnly /\ last.p # <<>>) => last.ret = "undefined"

\* a query binder returned, and the path it was invoked at
QueryBound == bound.kind = "query"
BoundPath == Front(node.accessed)

\* the cache entry holds v: as the data, or for an infinite query as its page
Holds(entry, v) == IF bound.type = "infinite" THEN entry.pages = <<v>> ELSE entry = v

\* C11: a lazy query whose resolver was given a pending promise stays disabled
\* until the promise resolves; the resolved value is then written under the
\* key derived at bind time from the input as it was before activation, and
\* it is written while the enabled flag is still false.
C11_SeedAtBaseKey ==
    (QueryBound /\ bound.lazy) =>
        /\ (bound.resolver = "pending" /\ ~bound.completed) => ~Truthy(bound.desc.enabled)
        /\ bound.seed.done =>
              LET base == getQueryKeyInternal(BoundPath, get(bound.procedureInput), bound.type)
              IN  /\ bound.seed.first => ~Truthy(bound.seed.enabledBefore)
                  /\ base \in DOMAIN cache
                  /\ Holds(cache[base], bound.seed.v)

\* C12: in lazy mode the descriptor's enabled is (the resolver has completed)
\* and (the caller's enabled option, true by default); without lazy the
\* adapter adds no enabled field.
C12_EnabledFlag ==
    QueryBound =>
        IF Truthy(Field(get(bound.opts), "lazy"))
        THEN /\ bound.desc.hasEnabled
             /\ Truthy(bound.desc.enabled)
                   <=> (bound.completed
                          /\ Truthy(Coalesce(Field(bound.desc.opts, "enabled"), True)))
        ELSE ~bound.desc.hasEnabled

C12_Witness ==
    /\ QueryBound
    /\ bound.opts = ObjLazyOff
    /\ bound.completed
    /\ bound.seed.done
    /\ bound.desc.hasEnabled
    /\ bound.desc.enabled = False

\* C13: in the reactive branch the latest descriptor has the key of the
\* binder's path and the input store's latest value (undefined and null
\* included), and its fetch forwards that value to the leaf at that path.
C13_LatestInput ==
    (QueryBound /\ bound.branch = "reactive" /\ bound.procedureInput.s) =>
        /\ bound.desc.input = bound.sin
        /\ bound.desc.key = getQueryKeyInternal(BoundPath, bound.sin, bound.type)
        /\ bound.call.made =>
              /\ bound.call.path = BoundPath
              /\ bound.type = "query" => bound.call.input = bound.sin

\* C14: every page request of an infinite query forwards the bound input with
\* cursor set to the requested page parameter and direction set to the
\* requested direction; the initial page parameter is opts.initialCursor, or
\* null when there is none.
C14_PageInput ==
    (QueryBound /\ bound.type = "infinite") =>
        /\ bound.call.made =>
              bound.call.input =
                  Obj(SetField(SetField(Spread(bound.desc.input), "cursor",
                                        Payload(bound.call.pageParam)),
                               "direction", bound.call.direction))
        /\ bound.desc.initialPageParam =
              (IF bound.desc.opts.k = "object" /\ HasField(bound.desc.opts, "initialCursor")
               THEN Field(bound.desc.opts, "initialCursor") ELSE Null)

\* C15: a fetch forwards the observer's abort signal iff abort-on-teardown is
\* in effect for the options of its descriptor: options.trpc.abortOnUnmount
\* when defined, the adapter-wide default otherwise.
C15_SignalIffAbort ==
    (QueryBound /\ bound.call.made) =>
        (bound.call.signal
           <=> Truthy(Coalesce(Field(bound.desc.opts, "trpc.abortOnUnmount"),
                               bound.abortOnUnmount)))

\* C16: createQuery and createInfiniteQuery do not throw, whatever the input
\* and the options are.
C16_BindersNeverThrow ==
    last.op \in {"createQuery", "createInfiniteQuery"} => last.ret # "TypeError"

\* the server-preload vocabulary of the claims
ServerBound == bound.kind = "server"
SingleServer == ServerBound /\ bound.type # "batch"
\* the stale-times of the descriptors the second stage emits now
EmittedStaleTimes ==
    IF bound.type = "batch" THEN {bound.descs[n].staleTime : n \in DOMAIN bound.descs}
    ELSE {bound.desc.staleTime}
\* the stale-time the caller gave for those descriptors
CallerStaleTime ==
    IF bound.type = "batch" THEN Undef ELSE Field(bound.desc.opts, "staleTime")
\* the updater (old) => ({ ...old, filter: 'y' }) of the declared signature
applyUpdater(old) == Obj(SetField(Spread(old), "filter", "y"))

\* C17: the first stage of createServerQuery / createServerInfiniteQuery
\* derives its key from the path, the input and the type, and issues a
\* prefetch (awaited before the second stage exists) if and only if opts.ssr
\* is not false and the cache holds no data for that key.
C17_PrefetchIffNoData ==
    SingleServer =>
        /\ bound.queryKey = getQueryKeyInternal(BoundPath, bound.preInput, bound.type)
        /\ bound.prefetch <=> (Field(bound.preOpts, "ssr") # False /\ ~bound.held)
        /\ bound.stage = "prefetching" => ~bound.second

\* C18: every descriptor the second stage emits before the mount carries an
\* infinite stale-time, whatever the caller gave; every descriptor emitted
\* after the mount carries the caller's stale-time or none; once mounted the
\* second stage stays mounted.
C18_Emitted ==
    (ServerBound /\ bound.second) =>
        IF ~bound.mounted THEN EmittedStaleTimes = {Infinity}
        ELSE EmittedStaleTimes = {CallerStaleTime}

C18_StaleTimeUntilMount ==
    [][/\ C18_Emitted'
       /\ (ServerBound /\ bound.second /\ bound.mounted) =>
              (ServerBound' /\ bound'.second /\ bound'.mounted)]_vars

C18_Witness ==
    /\ SingleServer /\ bound.second /\ bound.mounted
    /\ HasField(bound.desc.opts, "staleTime")
    /\ bound.desc.staleTime = Decode("5")

\* C19: the second stage of createServerQuery / createServerInfiniteQuery
\* called with an updater function uses the result of applying it to the
\* preloaded input as the input and in the key; called with no arguments it
\* uses the preloaded input and options.
C19_UpdaterApplied ==
    (SingleServer /\ bound.second) =>
        IF Len(bound.args) = 0
        THEN bound.procedureInput = bound.preInput /\ bound.opts = bound.preOpts
        ELSE bound.args[1] = Updater =>
                /\ bound.desc.input = applyUpdater(bound.preInput)
                /\ bound.desc.key =
                      getQueryKeyInternal(bound.desc.key[1], applyUpdater(bound.preInput),
                                          bound.type)

\* C20: createMutation(opts) with opts.onSuccess gives the cache layer a
\* wrapper; each call of the wrapper calls opts.onSuccess once with the same
\* arguments and returns its result; the mutation function resolves the leaf
\* at the bound path and calls its mutate with the mutation's input.
C20_MutationWrapper ==
    bound.kind = "mutation" =>
        /\ Truthy(Field(bound.opts, "onSuccess")) => bound.onSuccess = "wrapper"
        /\ bound.userCalls = bound.wrapperCalls
        /\ bound.userArgs = bound.wrapperArgs
        /\ bound.wrapperRet = bound.userRet
        /\ bound.mutationKey = getMutationKeyInternal(BoundPath)
        /\ bound.call.made =>
              /\ bound.call.path = BoundPath
              /\ bound.call.method = "mutate"
              /\ bound.call.input = bound.call.given

\* the path a mutation utility or createMutation was accessed at
MutationKeyed == last.op \in {"createMutation", "setMutationDefaults", "isMutating"}
AccessedPath == IF node.tree = "api" THEN Front(node.accessed) ELSE node.accessed

\* C21: the mutation key of createMutation, of setMutationDefaults and of
\* isMutating at path p is the key of (p, undefined, 'any'), which has no
\* options element.
C21_MutationKeysAgree ==
    MutationKeyed =>
        /\ last.key = getQueryKeyInternal(AccessedPath, Undef, "any")
        /\ Len(last.key) <= 1

C21_Witness ==
    /\ last.op = "setMutationDefaults"
    /\ node.accessed = <<"todos", "get">>
    /\ last.key = <<<<"todos", "get">>>>

\* C25: invoking a proxy node does not consume its path: after any number of
\* invocations of the node a query was bound at, the node's path, which the
\* closures of the bound query read, is the path the query was bound at.
C25_PathNotConsumed ==
    QueryBound =>
        /\ node.path = BoundPath
        /\ bound.call.made => bound.call.path = BoundPath

\* C30: a resolver call whose promise rejects writes nothing to the cache
\* and leaves the enabled flag as it was, and its own promise rejects; the
\* enabled flag of a lazy query never goes from true back to false.
RejectStep == bound.resolver = "pending" /\ bound'.rejected

C30_RejectLeavesDisabled ==
    [][(QueryBound /\ bound.lazy /\ QueryBound') =>
          /\ RejectStep =>
                /\ cache' = cache
                /\ bound'.enabled = bound.enabled
                /\ bound'.desc.enabled = bound.desc.enabled
                /\ bound'.resolver = "idle"
          /\ Truthy(bound.enabled) => Truthy(bound'.enabled)]_vars

C30_Witness ==
    QueryBound /\ bound.lazy /\ bound.rejected /\ ~bound.completed /\ bound.enabled = False

\* the subscription vocabulary of the claims
Subscribed == bound.kind = "subscription"
\* a subscription is established and unsubscribe() has not been called on it
Holding == Subscribed /\ bound.sub.made /\ bound.sub.phase = "active"
\* the enabled flag of the options as they are now
EnabledNow == Coalesce(Field(bound.opts, "enabled"), True)

\* C22: once a host update cycle has run after the last change, the
\* subscription follows the enabled flag: none is held while enabled is
\* false, one is held while it is true, and the one held is a subscription
\* to the leaf at the bound path with the bound input.
C22_FollowsEnabled ==
    (Subscribed /\ bound.updated /\ ~bound.destroyed) =>
        /\ Holding <=> Truthy(EnabledNow)
        /\ Holding => /\ bound.sub.path = BoundPath
                      /\ bound.sub.method = "subscribe"
                      /\ bound.sub.input = bound.procedureInput

\* C23: once the teardown of a subscription has begun, no event of the
\* transport reaches the caller's onStarted, onData or onError, whether it
\* arrives during unsubscribe() or after it.
C23_NoHandlerAfterTeardown ==
    (Subscribed /\ bound.event.ev # "none" /\ bound.event.torn) => ~bound.event.forwarded

C23_Witness ==
    /\ Subscribed /\ bound.event.ev = "started"
    /\ bound.event.torn /\ bound.event.phase = "unsubscribed"
    /\ ~bound.event.forwarded

\* C28: at most one subscription is established and not yet unsubscribed;
\* once the component is destroyed none is, and the subscription the call
\* established has had unsubscribe() called exactly once.
C28_OneSubscription ==
    Subscribed =>
        /\ bound.open \in {0, 1}
        /\ bound.open = 1 <=> Holding
        /\ bound.sub.made => bound.sub.unsubscribed = (IF Holding THEN 0 ELSE 1)
        /\ bound.destroyed => bound.open = 0

C28_Witness ==
    /\ Subscribed /\ bound.destroyed /\ bound.sub.made
    /\ bound.sub.phase = "unsubscribed" /\ bound.sub.unsubscribed = 1

\* a leaf of the batch tree was invoked on this step
LeafInvoked ==
    /\ bound.kind = "batch" /\ bound'.kind = "batch"
    /\ Len(bound'.descs) = Len(bound.descs) + 1

\* C24: invoking a leaf of the batch tree at path p with an input calls
\* neither the remote client nor the cache and returns a descriptor whose
\* key is the key of (p, input, 'query'); its fetch function, when run,
\* resolves the leaf at p and calls query with that input.
C24_BatchLeaf ==
    [][/\ LeafInvoked =>
             LET desc == bound'.descs[Len(bound'.descs)] IN
             /\ cache' = cache
             /\ bound'.call = bound.call
             /\ bound'.tpath = bound.tpath
             /\ desc.key = getQueryKeyInternal(bound.tpath, desc.i, "query")
             /\ desc.p = bound.tpath
       /\ (bound'.kind = "batch" /\ bound'.call.made) =>
             LET desc == bound'.descs[bound'.call.n] IN
             /\ bound'.call.path = desc.p
             /\ bound'.call.method = "query"
             /\ bound'.call.input = desc.i]_vars

C24_Witness ==
    /\ bound.kind = "batch" /\ Len(bound.descs) = 2
    /\ bound.descs[1].p = <<"todos", "get">> /\ bound.descs[2].p = <<"todos", "get">>
    /\ bound.tpath = <<"todos", "get">>
    /\ bound.call.made /\ bound.call.n = 1 /\ bound.call.path = <<"todos", "get">>

\* a kept utility function was called
HeldCalled == bound.kind = "utils" /\ bound.call.made
\* the input counts as given: it is neither undefined nor the skip sentinel
InputGiven(i) == i # Undef /\ i # skipToken

\* C26: a filter utility called with a defined input, falsy or not, filters
\* on a key whose options element holds that input, and so targets only the
\* entries of that input.
C26_FalsyInputKept ==
    (HeldCalled /\ bound.call.name \in {"invalidate", "refetch", "reset", "cancel"}
        /\ InputGiven(bound.call.input)) =>
        /\ Len(bound.call.key) = 2
        /\ "input" \in DOMAIN bound.call.key[2]
        /\ bound.call.key[2].input = bound.call.input
        /\ \A k \in bound.matched : k[2].input = bound.call.input

\* C27: reset(input, options) hands its second argument to resetQueries as
\* the options argument, with a filter that consists of the key.
C27_ResetOptions ==
    (HeldCalled /\ bound.call.name = "reset" /\ bound.third = Undef) =>
        /\ bound.call.prim = "resetQueries"
        /\ bound.call.key = getQueryKeyInternal(bound.fn.path, bound.call.input, "any")
        /\ bound.call.options = bound.second
        /\ bound.call.filters = {}

\* C29: a utility function the caller kept derives its key from the path and
\* the utility name it was read at, whatever was read from the tree since.
C29_UtilityStaysBound ==
    HeldCalled =>
        /\ bound.call.name = bound.fn.name
        /\ bound.call.type = getQueryType(bound.fn.name)
        /\ bound.call.key =
              getQueryKeyInternal(bound.fn.path, bound.call.input, getQueryType(bound.fn.name))

C29_Witness ==
    /\ HeldCalled /\ bound.fn.overwritten
    /\ bound.fn.name = "fetchInfinite" /\ bound.fn.path = <<"todos", "get">>
    /\ bound.ctx = [path |-> <<"todos">>, key |-> "invalidate"]
    /\ bound.call.key = <<<<"todos", "get">>, [input |-> ObjF, type |-> Str("infinite")]>>

====
